---- MODULE Spec2Model ----
(***************************************************************************)
(* MediaGroupForwarder (src/m.py): a relay that buffers the channel posts  *)
(* of one media group under an asyncio.Lock, forwards the sorted group to  *)
(* every destination after a fixed delay, and forwards ungrouped posts at  *)
(* once.                                                                   *)
(*                                                                         *)
(* One action is one run of a coroutine between two suspension points      *)
(* (asyncio is cooperative: code between two awaits is atomic).  Handler   *)
(* invocation h is the h-th update received; the completion task created   *)
(* by handler h has the same index h.                                      *)
(***************************************************************************)
EXTENDS Integers, Sequences, FiniteSets, TLC

\* ------------------------------------------------------------------ bounds
\* number of updates delivered to handle_update
MaxEvents == 2

\* ----------------------------------------------------------- configuration
S1 == "S1"              \* the configured source channel
SX == "SX"              \* a channel that is not configured
D1 == "D1"
D2 == "D2"
G1 == "G1"
G2 == "G2"
None == "None"

\* m.py:101-104 (the same channel id is listed twice)
sources == <<S1, S1>>
\* m.py:106-119 (one destination id is listed twice, lines 109 and 113)
destinations == <<D1, D2, D1>>
\* m.py:13, in clock ticks
delay == 2

MediaGroupIds == {G1, G2}
HandlerIds == 1..MaxEvents

\* ---------------------------------------------------------------- updates
\* An update whose channel_post is None (a private message, an edited post)
NonPost == [channel_post |-> FALSE]
\* update.channel_post: chat.id, message_id, media_group_id (None if absent)
MessageIds == 1..MaxEvents
SourcePosts ==
    [channel_post : {TRUE}, chat_id : {S1}, message_id : MessageIds,
     media_group_id : MediaGroupIds \cup {None}]
\* posts of the channel that is not configured, grouped and not
OtherPosts ==
    [channel_post : {TRUE}, chat_id : {SX}, message_id : {1},
     media_group_id : {None, G1}]
Updates == {NonPost} \cup SourcePosts \cup OtherPosts

\* ------------------------------------------------------------------- state
VARIABLES
    updates,        \* updates[h]: the update given to handler invocation h
    hpc,            \* hpc[h]: position of handler invocation h
    media_groups,   \* self.media_groups: key -> [messages, task]
    lockOwner,      \* self.lock: the coroutine holding it
    waiters,        \* self.lock: FIFO queue of coroutines blocked in acquire
    tpc,            \* tpc[t]: position of completion task t
    tkey,           \* tkey[t]: the key argument of process_group
    timer,          \* timer[t]: ticks left of asyncio.sleep(self.delay)
    message_ids,    \* message_ids[t]: local of process_group (line 65)
    calls,          \* calls[b]: the bot calls issued for batch b, in order
    errors,         \* errors[b]: logging.error records written for batch b
    wokeAt          \* wokeAt[t]: number of updates received when t woke

vars == <<updates, hpc, media_groups, lockOwner, waiters, tpc, tkey, timer,
          message_ids, calls, errors, wokeAt>>

NoOwner == <<"none", 0>>
Handler(h) == <<"handler", h>>
Task(t) == <<"task", t>>
NoKey == <<None, None>>

\* ----------------------------------------------------------- pure helpers
Range(s) == {s[i] : i \in 1..Len(s)}

\* variant: the check of line 35 against self.sources is missing
AcceptedAnyChat(u) == u.channel_post

\* m.py:30 and m.py:35: only channel posts of a configured source pass
Accepted(u) == u.channel_post /\ u.chat_id \in Range(sources)

\* variant: every post is treated as part of a media group
HasMediaGroupAlways(u) == TRUE

\* m.py:43: `if media_group_id:`
HasMediaGroup(u) == u.media_group_id # None

\* m.py:45
KeyOf(u) == <<u.chat_id, u.media_group_id>>

RECURSIVE InsertSorted(_, _)
InsertSorted(m, s) ==
    IF s = <<>> THEN <<m>>
    ELSE IF m.message_id < Head(s).message_id THEN <<m>> \o s
    ELSE <<Head(s)>> \o InsertSorted(m, Tail(s))

\* variant: the messages are forwarded in arrival order
Unsorted(msgs) == msgs

\* m.py:64: sorted(messages, key=lambda x: x.message_id), a stable sort
RECURSIVE sorted(_)
sorted(msgs) ==
    IF msgs = <<>> THEN <<>>
    ELSE InsertSorted(msgs[Len(msgs)], sorted(SubSeq(msgs, 1, Len(msgs) - 1)))

\* m.py:65
MessageIdsOf(msgs) == [i \in 1..Len(msgs) |-> msgs[i].message_id]

\* variant: the buffer is accessed without taking the lock
MustWaitNever(owner, ws) == FALSE

\* asyncio.Lock.acquire (m.py:46, m.py:60): the caller is suspended when the
\* lock is held or when earlier callers are still queued (the lock is fair)
MustWait(owner, ws) == owner # NoOwner \/ ws # <<>>

\* asyncio.Lock.release at the end of `async with` (m.py:53, m.py:83): the
\* first coroutine that started waiting proceeds
ReleasedOwner(ws) == IF ws = <<>> THEN NoOwner ELSE Head(ws)
ReleasedWaiters(ws) == IF ws = <<>> THEN <<>> ELSE Tail(ws)

\* variant: the failed delivery is not caught
CaughtNothing(res) == FALSE

\* variant: the sleep is not awaited
SleepOverAtOnce(left) == TRUE

\* m.py:59: `await asyncio.sleep(self.delay)` returns when the delay is over
SleepOver(left) == left = 0

\* m.py:79 and m.py:96: `except Exception` catches the failed delivery
Caught(res) == res = "error"

\* variant: the loop passes over every other destination
NextDestSkip(i) == i + 2

\* m.py:68 and m.py:86: the loop goes on with the next entry of the list
NextDest(i) == i + 1

\* m.py:70-74: context.bot.forward_messages(...), awaiting its result
ForwardMessagesCall(i, source_id, ids) ==
    [op |-> "forward_messages", chat_id |-> destinations[i],
     from_chat_id |-> source_id, message_ids |-> ids]

\* m.py:88-92: context.bot.forward_message(...), awaiting its result
ForwardMessageCall(i, source_id, id) ==
    [op |-> "forward_message", chat_id |-> destinations[i],
     from_chat_id |-> source_id, message_ids |-> <<id>>]

\* m.py:80 and m.py:97: logging.error in the except clause of batch b
ErrorsAfter(b, res) ==
    IF Caught(res) THEN [errors EXCEPT ![b] = @ + 1] ELSE errors

\* msg = update.channel_post (m.py:40)
MsgOf(u) ==
    [message_id |-> u.message_id, chat_id |-> u.chat_id,
     media_group_id |-> u.media_group_id]

\* variant: the entry and its task are created for every post
IsNewKeyAlways(mg, key) == TRUE

\* m.py:47: `if key not in self.media_groups`
IsNewKey(mg, key) == key \notin DOMAIN mg

\* m.py:48-51: the new entry, its task being the one created by handler h
BufferAfterCreate(mg, key, h) ==
    IF IsNewKey(mg, key)
    THEN [k \in DOMAIN mg \cup {key} |->
            IF k = key THEN [messages |-> <<>>, task |-> h] ELSE mg[k]]
    ELSE mg

\* variant: line 52 is indented into the `if` of line 47
BufferAppendOnlyWhenNew(mg, h, u) ==
    IF IsNewKey(mg, KeyOf(u))
    THEN [BufferAfterCreate(mg, KeyOf(u), h) EXCEPT
             ![KeyOf(u)].messages = Append(@, MsgOf(u))]
    ELSE mg

\* variant: line 52 is left out, the entry stays as line 48 made it
BufferCreateOnly(mg, h, u) == BufferAfterCreate(mg, KeyOf(u), h)

\* m.py:47-52: the body of `async with self.lock` in handle_update
BufferAfterAppend(mg, h, u) ==
    [BufferAfterCreate(mg, KeyOf(u), h) EXCEPT
        ![KeyOf(u)].messages = Append(@, MsgOf(u))]

\* variant: the entry is never deleted
BufferNotDeleted(mg, key) == mg

\* variant: the whole buffer is cleared
BufferCleared(mg, key) == <<>>

\* m.py:83: del self.media_groups[key]
BufferAfterDelete(mg, key) == [k \in DOMAIN mg \ {key} |-> mg[k]]

\* message ids are unique within one chat (assigned by the transport)
FreshId(u) ==
    u.channel_post =>
        \A h \in 1..Len(updates) :
            updates[h].channel_post /\ updates[h].chat_id = u.chat_id
                => updates[h].message_id # u.message_id

\* ------------------------------------------------------------------- Init
Init ==
    /\ updates = <<>>
    /\ hpc = <<>>
    /\ media_groups = <<>>
    /\ lockOwner = NoOwner
    /\ waiters = <<>>
    /\ tpc = [t \in HandlerIds |-> "none"]
    /\ tkey = [t \in HandlerIds |-> NoKey]
    /\ timer = [t \in HandlerIds |-> 0]
    /\ message_ids = [t \in HandlerIds |-> <<>>]
    /\ calls = [b \in HandlerIds |-> <<>>]
    /\ errors = [b \in HandlerIds |-> 0]
    /\ wokeAt = [t \in HandlerIds |-> 0]

\* ------------------------------------------------- handle_update (25-55)
\* lines 47-53 run by handler h: create the group and its task if the key is
\* new, append the message
AppendUnderLock(h, u) ==
    /\ media_groups' = BufferAfterAppend(media_groups, h, u)
    /\ IF IsNewKey(media_groups, KeyOf(u))
       THEN /\ tpc' = [tpc EXCEPT ![h] = "new"]
            /\ tkey' = [tkey EXCEPT ![h] = KeyOf(u)]
       ELSE UNCHANGED <<tpc, tkey>>

\* an update that is dropped at line 32 or line 37
HandleIgnored(u) ==
    /\ ~Accepted(u)
    /\ updates' = Append(updates, u)
    /\ hpc' = Append(hpc, "done")
    /\ UNCHANGED <<media_groups, lockOwner, waiters, tpc, tkey, timer,
                   message_ids, calls, errors, wokeAt>>

\* a grouped post that finds the lock free: lines 46-53 without suspension
HandleGroupedNow(u) ==
    LET h == Len(updates) + 1 IN
    /\ Accepted(u) /\ HasMediaGroup(u)
    /\ ~MustWait(lockOwner, waiters)
    /\ updates' = Append(updates, u)
    /\ hpc' = Append(hpc, "done")
    /\ AppendUnderLock(h, u)
    /\ UNCHANGED <<lockOwner, waiters, timer, message_ids, calls, errors,
                   wokeAt>>

\* a grouped post that is suspended at line 46
HandleGroupedWait(u) ==
    LET h == Len(updates) + 1 IN
    /\ Accepted(u) /\ HasMediaGroup(u)
    /\ MustWait(lockOwner, waiters)
    /\ updates' = Append(updates, u)
    /\ hpc' = Append(hpc, "wait_lock")
    /\ waiters' = Append(waiters, Handler(h))
    /\ UNCHANGED <<media_groups, lockOwner, tpc, tkey, timer, message_ids,
                   calls, errors, wokeAt>>

\* a post without media group: line 55, forward_single up to its first await
HandleSingle(u) ==
    LET h == Len(updates) + 1 IN
    /\ Accepted(u) /\ ~HasMediaGroup(u)
    /\ updates' = Append(updates, u)
    /\ hpc' = Append(hpc, "forward")
    /\ calls' = [calls EXCEPT
                   ![h] = <<ForwardMessageCall(1, u.chat_id, u.message_id)>>]
    /\ UNCHANGED <<media_groups, lockOwner, waiters, tpc, tkey, timer,
                   message_ids, errors, wokeAt>>

handle_update ==
    /\ Len(updates) < MaxEvents
    /\ \E u \in Updates :
        /\ FreshId(u)
        /\ \/ HandleIgnored(u)
           \/ HandleGroupedNow(u)
           \/ HandleGroupedWait(u)
           \/ HandleSingle(u)

\* the suspended handler is given the lock: lines 47-53
HandlerAcquired(h) ==
    /\ h \in 1..Len(updates)
    /\ hpc[h] = "wait_lock"
    /\ lockOwner = Handler(h)
    /\ AppendUnderLock(h, updates[h])
    /\ hpc' = [hpc EXCEPT ![h] = "done"]
    /\ lockOwner' = ReleasedOwner(waiters)
    /\ waiters' = ReleasedWaiters(waiters)
    /\ UNCHANGED <<updates, timer, message_ids, calls, errors, wokeAt>>

\* ------------------------------------------------ forward_single (85-97)
\* the awaited forward_message returns or raises; the loop goes on
ForwardSingleReturn(h, res) ==
    /\ h \in 1..Len(updates)
    /\ hpc[h] = "forward"
    /\ errors' = ErrorsAfter(h, res)
    /\ LET i == Len(calls[h])
       IN IF res = "error" /\ ~Caught(res)
          THEN /\ hpc' = [hpc EXCEPT ![h] = "raised"]
               /\ UNCHANGED calls
          ELSE IF NextDest(i) \in 1..Len(destinations)
          THEN /\ calls' = [calls EXCEPT ![h] = Append(@,
                               ForwardMessageCall(NextDest(i),
                                   updates[h].chat_id, updates[h].message_id))]
               /\ UNCHANGED hpc
          ELSE /\ hpc' = [hpc EXCEPT ![h] = "done"]
               /\ UNCHANGED calls
    /\ UNCHANGED <<updates, media_groups, lockOwner, waiters, tpc, tkey,
                   timer, message_ids, wokeAt>>

\* ------------------------------------------------- process_group (57-83)
\* the task created at line 49 starts and suspends in asyncio.sleep (line 59)
TaskStart(t) ==
    /\ tpc[t] = "new"
    /\ tpc' = [tpc EXCEPT ![t] = "sleep"]
    /\ timer' = [timer EXCEPT ![t] = delay]
    /\ UNCHANGED <<updates, hpc, media_groups, lockOwner, waiters, tkey,
                   message_ids, calls, errors, wokeAt>>

\* one unit of time passes for every sleeping task; a task created at line
\* 49 is scheduled at once and starts before the clock advances
Tick ==
    /\ \E t \in HandlerIds : tpc[t] = "sleep" /\ timer[t] > 0
    /\ \A t \in HandlerIds : tpc[t] # "new"
    /\ timer' = [t \in HandlerIds |->
                    IF tpc[t] = "sleep" /\ timer[t] > 0
                    THEN timer[t] - 1 ELSE timer[t]]
    /\ UNCHANGED <<updates, hpc, media_groups, lockOwner, waiters, tpc, tkey,
                   message_ids, calls, errors, wokeAt>>

\* lines 61-74 run by task t holding the lock: the absent key returns, else
\* the messages are sorted and the first forward_messages call is awaited.
\* owner and ws are the lock's state when the block is left at once.
ExtractUnderLock(t, owner, ws) ==
    IF tkey[t] \notin DOMAIN media_groups
    THEN /\ tpc' = [tpc EXCEPT ![t] = "done"]
         /\ lockOwner' = ReleasedOwner(ws)
         /\ waiters' = ReleasedWaiters(ws)
         /\ UNCHANGED <<message_ids, calls>>
    ELSE LET ids == MessageIdsOf(sorted(media_groups[tkey[t]].messages)) IN
         /\ tpc' = [tpc EXCEPT ![t] = "forward"]
         /\ message_ids' = [message_ids EXCEPT ![t] = ids]
         /\ calls' = [calls EXCEPT
                        ![t] = <<ForwardMessagesCall(1, tkey[t][1], ids)>>]
         /\ lockOwner' = Task(t)
         /\ waiters' = ws

\* the sleep is over and the lock is free: lines 60-74 without suspension
TaskWakeNow(t) ==
    /\ tpc[t] = "sleep" /\ SleepOver(timer[t])
    /\ ~MustWait(lockOwner, waiters)
    /\ wokeAt' = [wokeAt EXCEPT ![t] = Len(updates)]
    /\ ExtractUnderLock(t, lockOwner, waiters)
    /\ UNCHANGED <<updates, hpc, media_groups, tkey, timer, errors>>

\* the sleep is over and the task is suspended at line 60
TaskWakeWait(t) ==
    /\ tpc[t] = "sleep" /\ SleepOver(timer[t])
    /\ MustWait(lockOwner, waiters)
    /\ wokeAt' = [wokeAt EXCEPT ![t] = Len(updates)]
    /\ tpc' = [tpc EXCEPT ![t] = "wait_lock"]
    /\ waiters' = Append(waiters, Task(t))
    /\ UNCHANGED <<updates, hpc, media_groups, lockOwner, tkey, timer,
                   message_ids, calls, errors>>

\* the suspended task is given the lock: lines 61-74
TaskAcquired(t) ==
    /\ tpc[t] = "wait_lock"
    /\ lockOwner = Task(t)
    /\ ExtractUnderLock(t, lockOwner, waiters)
    /\ UNCHANGED <<updates, hpc, media_groups, tkey, timer, errors, wokeAt>>

\* the awaited forward_messages returns or raises (lines 70-80); after the
\* last destination the group is deleted and the lock released (line 83)
ForwardManyReturn(t, res) ==
    /\ tpc[t] = "forward"
    /\ errors' = ErrorsAfter(t, res)
    /\ LET i == Len(calls[t])
       IN IF res = "error" /\ ~Caught(res)
          THEN /\ tpc' = [tpc EXCEPT ![t] = "raised"]
               /\ lockOwner' = ReleasedOwner(waiters)
               /\ waiters' = ReleasedWaiters(waiters)
               /\ UNCHANGED <<calls, media_groups>>
          ELSE IF NextDest(i) \in 1..Len(destinations)
          THEN /\ calls' = [calls EXCEPT ![t] = Append(@,
                               ForwardMessagesCall(NextDest(i), tkey[t][1],
                                                   message_ids[t]))]
               /\ UNCHANGED <<tpc, media_groups, lockOwner, waiters>>
          ELSE /\ UNCHANGED calls
               /\ media_groups' = BufferAfterDelete(media_groups, tkey[t])
               /\ tpc' = [tpc EXCEPT ![t] = "done"]
               /\ lockOwner' = ReleasedOwner(waiters)
               /\ waiters' = ReleasedWaiters(waiters)
    /\ UNCHANGED <<updates, hpc, tkey, timer, message_ids, wokeAt>>

\* ------------------------------------------------------------------- Next
Results == {"ok", "error"}

Next ==
    \/ handle_update
    \/ \E h \in HandlerIds : HandlerAcquired(h)
    \/ \E h \in HandlerIds, res \in Results : ForwardSingleReturn(h, res)
    \/ \E t \in HandlerIds : TaskStart(t)
    \/ Tick
    \/ \E t \in HandlerIds : TaskWakeNow(t)
    \/ \E t \in HandlerIds : TaskWakeWait(t)
    \/ \E t \in HandlerIds : TaskAcquired(t)
    \/ \E t \in HandlerIds, res \in Results : ForwardManyReturn(t, res)

Spec == Init /\ [][Next]_vars

\* the event loop runs every coroutine that is ready (handlers resumed at
\* line 46, tasks at lines 57-60), the clock of asyncio.sleep advances, and
\* every awaited bot call returns or raises; no update has to arrive
FairSpec ==
    /\ Spec
    /\ WF_vars(Tick)
    /\ \A h \in HandlerIds :
          /\ WF_vars(HandlerAcquired(h))
          /\ WF_vars(\E res \in Results : ForwardSingleReturn(h, res))
          /\ WF_vars(TaskStart(h) \/ TaskWakeNow(h) \/ TaskWakeWait(h)
                         \/ TaskAcquired(h))
          /\ WF_vars(\E res \in Results : ForwardManyReturn(h, res))

\* ======================================================== claim vocabulary
\* handler invocation h received a channel post of the configured source
SourcePost(h) ==
    h \in 1..Len(updates) /\ updates[h].channel_post /\ updates[h].chat_id = S1
\* ... that carries a group identity
GroupedPost(h) == SourcePost(h) /\ updates[h].media_group_id # None
\* ... that carries none
SinglePost(h) == SourcePost(h) /\ updates[h].media_group_id = None
\* the update is not a channel post or its chat is not a configured source
Ignorable(u) == IF u.channel_post THEN u.chat_id # S1 ELSE TRUE
GroupKey(h) == <<updates[h].chat_id, updates[h].media_group_id>>
ItemIds(H) == {updates[h].message_id : h \in H}
Ascending(s) == \A i \in 1..(Len(s) - 1) : s[i] < s[i + 1]
NDest == Len(destinations)
\* the completion task t has not finished
Outstanding(t) == tpc[t] \in {"new", "sleep", "wait_lock", "forward"}
\* the completion task t has ended
Ended(t) == tpc[t] \in {"done", "raised"}
\* the coroutine that delivers batch b has ended
BatchOver(b) ==
    \/ SinglePost(b) /\ hpc[b] \in {"done", "raised"}
    \/ Ended(b)
\* batch b awaits the result of its last call
Awaiting(b) ==
    \/ b \in 1..Len(hpc) /\ hpc[b] = "forward"
    \/ tpc[b] = "forward"
\* the number of calls of batch b that have returned or raised
Returned(b) == IF Awaiting(b) THEN Len(calls[b]) - 1 ELSE Len(calls[b])
\* the item ids buffered under a key
BufferedIds(key) ==
    IF key \in DOMAIN media_groups
    THEN {media_groups[key].messages[i].message_id :
             i \in 1..Len(media_groups[key].messages)}
    ELSE {}
\* the grouped posts that arrived from the creation of t's group until the
\* completion task t ran on after its sleep
Members(t) ==
    {h \in 1..Len(updates) :
        h >= t /\ h <= wokeAt[t] /\ GroupedPost(h) /\ GroupKey(h) = tkey[t]}

\* ---------------------------------------------------------------------- C1
\* C1: the grouped posts of one key that all arrived before the key's
\* completion task ran are forwarded by exactly one forward_messages call per
\* entry of the destination list, each carrying all their ids, and by no
\* other call.
C1_GroupingCorrectness ==
    \A t \in HandlerIds : tpc[t] = "done" =>
        /\ Len(calls[t]) = NDest
        /\ \A i \in 1..NDest :
              /\ calls[t][i].op = "forward_messages"
              /\ calls[t][i].chat_id = destinations[i]
              /\ calls[t][i].from_chat_id = tkey[t][1]
              /\ Range(calls[t][i].message_ids) = ItemIds(Members(t))
              /\ Len(calls[t][i].message_ids) = Cardinality(Members(t))
        /\ \A b \in HandlerIds \ {t} : \A j \in 1..Len(calls[b]) :
              calls[b][j].op = "forward_messages"
                  /\ calls[b][j].from_chat_id = tkey[t][1]
                  => Range(calls[b][j].message_ids) \cap ItemIds(Members(t)) = {}

\* a completed group of two posts that arrived in descending id order
C1_Witness ==
    \E t \in HandlerIds :
        /\ tpc[t] = "done"
        /\ \E h1, h2 \in Members(t) :
              h1 < h2 /\ updates[h1].message_id > updates[h2].message_id

\* ---------------------------------------------------------------------- C2
\* C2: the id list of every forward_messages call is ascending, whatever the
\* arrival order.
C2_OrderingInvariant ==
    \A b \in HandlerIds : \A j \in 1..Len(calls[b]) :
        calls[b][j].op = "forward_messages" => Ascending(calls[b][j].message_ids)

\* a call is awaited for a group whose buffered arrival order is not ascending
C2_Witness ==
    \E t \in HandlerIds :
        /\ tpc[t] = "forward"
        /\ tkey[t] \in DOMAIN media_groups
        /\ ~Ascending(MessageIdsOf(media_groups[tkey[t]].messages))
        /\ Len(calls[t][1].message_ids) >= 2

\* ---------------------------------------------------------------------- C3
\* C3: a post without group identity is forwarded by forward_single inside
\* its handler invocation: the first forward_message call is issued on
\* arrival, the handler never queues for the lock and schedules no task, its
\* next step never depends on the lock, and when it returns every entry of
\* the destination list has had one forward_message call.
C3_SingletonBypass ==
    \A h \in 1..Len(updates) : SinglePost(h) =>
        /\ hpc[h] \in {"forward", "done"}
        /\ lockOwner # Handler(h)
        /\ \A i \in 1..Len(waiters) : waiters[i] # Handler(h)
        /\ tpc[h] = "none"
        /\ Len(calls[h]) >= 1
        /\ \A i \in 1..Len(calls[h]) :
              /\ calls[h][i].op = "forward_message"
              /\ calls[h][i].chat_id = destinations[i]
              /\ calls[h][i].from_chat_id = updates[h].chat_id
              /\ calls[h][i].message_ids = <<updates[h].message_id>>
        /\ hpc[h] = "forward" => ENABLED ForwardSingleReturn(h, "ok")
        /\ hpc[h] = "done" => Len(calls[h]) = NDest

\* a singleton that arrived while a completion task held the lock has
\* returned, the task still delivering
C3_Witness ==
    \E h \in 1..Len(updates), t \in HandlerIds :
        /\ SinglePost(h) /\ hpc[h] = "done"
        /\ tpc[t] = "forward" /\ lockOwner = Task(t)
        /\ wokeAt[t] < h

\* ---------------------------------------------------------------------- C4
\* C4: whatever calls fail, call i of a batch goes to entry i of the
\* destination list, earlier calls are neither repeated nor skipped, and a
\* batch whose delivery is over has made exactly one call per entry.
C4_DestinationIsolation ==
    \A b \in HandlerIds :
        /\ Len(calls[b]) <= NDest
        /\ \A i \in 1..Len(calls[b]) :
              /\ calls[b][i].chat_id = destinations[i]
              /\ calls[b][i].op = calls[b][1].op
              /\ calls[b][i].message_ids = calls[b][1].message_ids
        /\ errors[b] <= Returned(b)
        /\ BatchOver(b) => Len(calls[b]) = NDest

\* a finished batch one call of which failed: all entries were attempted
C4_Witness ==
    \E b \in HandlerIds :
        BatchOver(b) /\ errors[b] = 1 /\ Len(calls[b]) = NDest

\* ---------------------------------------------------------------------- C5
\* C5: an update that is not a channel post, or whose chat is not configured,
\* leaves the buffer, the tasks, the lock and the calls as they were, and its
\* handler has returned without any call or task of its own.
C5_IgnoredState ==
    \A h \in 1..Len(updates) : Ignorable(updates[h]) =>
        /\ hpc[h] = "done"
        /\ calls[h] = <<>>
        /\ tpc[h] = "none"
        /\ \A k \in DOMAIN media_groups : media_groups[k].task # h

C5_IgnoredStep ==
    (Len(updates') = Len(updates) + 1 /\ Ignorable(updates'[Len(updates')]))
        => UNCHANGED <<media_groups, tpc, tkey, timer, message_ids, calls,
                       errors, lockOwner, waiters>>

C5_SourceFiltering == []C5_IgnoredState /\ [][C5_IgnoredStep]_vars

\* a grouped post of the unconfigured chat was dropped while a group of the
\* same group id is buffered
C5_Witness ==
    \E h \in 1..Len(updates) :
        /\ updates[h].channel_post /\ updates[h].chat_id = SX
        /\ updates[h].media_group_id = G1
        /\ <<S1, G1>> \in DOMAIN media_groups
        /\ DOMAIN media_groups = {<<S1, G1>>}
\* ---------------------------------------------------------------------- C6
\* the completion of the key has happened and no group of the key is pending
CompletedKey(key) ==
    /\ \E t \in HandlerIds : tpc[t] = "done" /\ tkey[t] = key
    /\ \A t \in HandlerIds : tkey[t] = key => ~Outstanding(t)

\* handler h runs lines 47-53 in this step
AppendsNow(h) ==
    /\ h \in 1..Len(updates')
    /\ hpc'[h] = "done"
    /\ updates'[h].channel_post
    /\ updates'[h].chat_id = S1
    /\ updates'[h].media_group_id # None
    /\ h \in 1..Len(updates) => hpc[h] = "wait_lock"

\* C6: a grouped post handled after the completion of its key starts a new
\* entry holding that post alone, with a newly created task that sleeps the
\* whole delay; the batches of two tasks of one key share no item, and the
\* later task makes its own forward_messages call per destination entry.
C6_NewGroupStep ==
    \A h \in HandlerIds :
        /\ AppendsNow(h) /\ CompletedKey(<<updates'[h].chat_id, updates'[h].media_group_id>>)
              => LET key == <<updates'[h].chat_id, updates'[h].media_group_id>> IN
                 /\ key \in DOMAIN media_groups'
                 /\ media_groups'[key].task = h
                 /\ MessageIdsOf(media_groups'[key].messages)
                        = <<updates'[h].message_id>>
                 /\ tpc'[h] = "new" /\ tkey'[h] = key
        /\ (\E t0 \in HandlerIds : t0 < h /\ tpc[t0] = "done" /\ tkey[t0] = tkey[h]) =>
              /\ tpc[h] = "new" /\ tpc'[h] # "new"
                    => tpc'[h] = "sleep" /\ timer'[h] = delay
              /\ tpc[h] = "sleep" /\ timer'[h] # timer[h]
                    => timer'[h] = timer[h] - 1 /\ tpc'[h] = "sleep"
              /\ tpc[h] = "sleep" /\ tpc'[h] # "sleep" => timer[h] = 0

C6_SeparateBatches ==
    \A t0, t1 \in HandlerIds :
        (t0 < t1 /\ tpc[t0] # "none" /\ tpc[t1] # "none" /\ tkey[t0] = tkey[t1]) =>
            /\ tpc[t0] = "done"
            /\ Len(calls[t0]) = NDest
            /\ Range(message_ids[t0]) \cap BufferedIds(tkey[t1]) = {}
            /\ \A i \in 1..Len(calls[t1]) :
                  /\ calls[t1][i].op = "forward_messages"
                  /\ Range(calls[t1][i].message_ids)
                        \cap Range(message_ids[t0]) = {}
            /\ tpc[t1] = "done" => Len(calls[t1]) = NDest

C6_NoResurrection == []C6_SeparateBatches /\ [][C6_NewGroupStep]_vars

\* two tasks of one key have both completed, each with its own calls
C6_Witness ==
    \E t0, t1 \in HandlerIds :
        /\ t0 < t1 /\ tkey[t0] = tkey[t1]
        /\ tpc[t0] = "done" /\ tpc[t1] = "done"
        /\ Len(calls[t0]) = NDest /\ Len(calls[t1]) = NDest
        /\ calls[t0][1].message_ids # calls[t1][1].message_ids

\* ---------------------------------------------------------------------- C7
\* C7: every key in the buffer has exactly one outstanding completion task,
\* the one its entry names; no task is outstanding for a key that is not in
\* the buffer; a post for a key already present schedules no task; and an
\* entry is never forwarded by more than one task.
C7_OneTimerOneCompletion ==
    /\ \A key \in DOMAIN media_groups :
          /\ Cardinality({t \in HandlerIds : Outstanding(t) /\ tkey[t] = key}) = 1
          /\ Outstanding(media_groups[key].task)
          /\ tkey[media_groups[key].task] = key
    /\ \A t \in HandlerIds :
          /\ Outstanding(t) => tkey[t] \in DOMAIN media_groups
          /\ tpc[t] # "none" => GroupedPost(t)
          /\ Len(calls[t]) <= NDest
    /\ \A h \in 1..Len(updates) :
          (GroupedPost(h) /\ hpc[h] = "done" /\ tpc[h] = "none") =>
              \E t \in 1..(h - 1) : tkey[t] = GroupKey(h) /\ tpc[t] # "none"
    /\ \A t0, t1 \in HandlerIds :
          (t0 # t1 /\ tkey[t0] = tkey[t1] /\ tpc[t0] # "none") =>
              Range(message_ids[t0]) \cap Range(message_ids[t1]) = {}

\* a second post was appended to a pending entry and scheduled no task
C7_Witness ==
    \E key \in DOMAIN media_groups, h \in 1..Len(updates) :
        /\ Len(media_groups[key].messages) >= 2
        /\ GroupedPost(h) /\ GroupKey(h) = key /\ hpc[h] = "done"
        /\ tpc[h] = "none"
        /\ tpc[media_groups[key].task] = "sleep"

\* ---------------------------------------------------------------------- C8
\* the tasks whose extracted id list holds the item of handler h
BatchesOf(h) ==
    {t \in HandlerIds :
        tkey[t] = GroupKey(h) /\ updates[h].message_id \in Range(message_ids[t])}

\* C8: an appended item is either still buffered, and then in the id list of
\* its entry's task once that list is extracted, or it is in the id list of
\* exactly one task that forwarded it; between extraction and removal the
\* entry holds exactly the extracted items.
C8_NoLossNoDuplicate ==
    /\ \A h \in 1..Len(updates) : (GroupedPost(h) /\ hpc[h] = "done") =>
          /\ Cardinality(BatchesOf(h)) <= 1
          /\ IF updates[h].message_id \in BufferedIds(GroupKey(h))
             THEN BatchesOf(h) \subseteq {media_groups[GroupKey(h)].task}
             ELSE \E t \in BatchesOf(h) :
                     /\ tpc[t] = "done"
                     /\ Len(calls[t]) = NDest
                     /\ \A i \in 1..NDest :
                           updates[h].message_id
                               \in Range(calls[t][i].message_ids)
    /\ \A t \in HandlerIds : tpc[t] = "forward" =>
          /\ tkey[t] \in DOMAIN media_groups
          /\ BufferedIds(tkey[t]) = Range(message_ids[t])
          /\ Len(media_groups[tkey[t]].messages) = Len(message_ids[t])

\* a post of the key arrived between the extraction and the removal of the
\* key's entry, and was later forwarded in a batch of its own
C8_Witness ==
    \E t, h \in HandlerIds :
        /\ t < h /\ GroupedPost(h) /\ GroupKey(h) = tkey[t]
        /\ wokeAt[t] < h
        /\ tpc[t] = "done"
        /\ tpc[h] = "done"
        /\ BatchesOf(h) = {h}

\* ---------------------------------------------------------------------- C9
\* C9: no handler and no completion task ever ends with an exception; a
\* batch with failed calls and no call in flight has ended normally, with
\* the lock released, and failures never stop the other coroutines.
C9_ErrorsNeverPropagate ==
    /\ \A h \in 1..Len(updates) : hpc[h] # "raised"
    /\ \A t \in HandlerIds : tpc[t] # "raised"
    /\ \A b \in HandlerIds : (errors[b] > 0 /\ ~Awaiting(b)) =>
          /\ SinglePost(b) => hpc[b] = "done"
          /\ GroupedPost(b) => tpc[b] = "done" /\ lockOwner # Task(b)

\* every call of a singleton and every call of a group has failed, and both
\* coroutines have ended normally
C9_Witness ==
    \E h, t \in HandlerIds :
        /\ SinglePost(h) /\ hpc[h] = "done" /\ errors[h] = NDest
        /\ tpc[t] = "done" /\ errors[t] = NDest

\* --------------------------------------------------------------------- C10
\* task t takes the result of an awaited forward_messages call in this step
ReturnsNow(t) ==
    tpc[t] = "forward" /\ (calls'[t] # calls[t] \/ tpc'[t] # "forward")

\* C10: the step in which a forward_messages call returns or raises leaves
\* every other entry of the buffer as it was; the task's own entry stays as
\* it was until the last call is over and is then removed, whatever the
\* results.
C10_FailureLeavesBuffer ==
    \A t \in HandlerIds : ReturnsNow(t) =>
        /\ \A k \in DOMAIN media_groups \ {tkey[t]} :
              k \in DOMAIN media_groups' /\ media_groups'[k] = media_groups[k]
        /\ DOMAIN media_groups' \subseteq DOMAIN media_groups
        /\ IF tpc'[t] = "forward"
           THEN media_groups' = media_groups
           ELSE tkey[t] \notin DOMAIN media_groups'

C10_NoEffectOnGroupState == [][C10_FailureLeavesBuffer]_vars

\* a task all of whose calls failed has ended, its key is gone and the entry
\* of another key is still buffered with its item
C10_Witness ==
    \E t \in HandlerIds :
        /\ tpc[t] = "done" /\ errors[t] = NDest
        /\ tkey[t] \notin DOMAIN media_groups
        /\ \E k \in DOMAIN media_groups :
              k # tkey[t] /\ Len(media_groups[k].messages) = 1

\* --------------------------------------------------------------------- C11
\* C11: whenever a forward_messages call of completion task t is awaited,
\* the key of t has been removed from the buffer and t has released the lock.
C11_RemovedBeforeForward ==
    \A t \in HandlerIds : tpc[t] = "forward" =>
        /\ tkey[t] \notin DOMAIN media_groups
        /\ lockOwner # Task(t)

\* --------------------------------------------------------------------- C12
\* C12: no delivery call is outstanding while the lock is held, so a handler
\* suspended at the lock never waits for a completion task that awaits a
\* forward_messages call.
C12_LockNotHeldWhileDelivering ==
    /\ \A t \in HandlerIds : lockOwner = Task(t) => tpc[t] # "forward"
    /\ \A h \in 1..Len(updates) : hpc[h] = "wait_lock" =>
          \A t \in HandlerIds : tpc[t] # "forward"

\* --------------------------------------------------------------------- C13
\* C13: a completion task whose sleep is over never waits while the task of
\* another key awaits its forward_messages calls.
C13_CompletionsIndependent ==
    \A t1, t2 \in HandlerIds :
        (t1 # t2 /\ tkey[t1] # tkey[t2] /\ tpc[t1] = "forward")
            => tpc[t2] # "wait_lock"

\* --------------------------------------------------------------------- C14
\* the entry of task t takes one more message in this step
AppendedTo(t) ==
    /\ tkey[t] \in DOMAIN media_groups /\ media_groups[tkey[t]].task = t
    /\ tkey[t] \in DOMAIN media_groups' /\ media_groups'[tkey[t]].task = t
    /\ Len(media_groups'[tkey[t]].messages)
           > Len(media_groups[tkey[t]].messages)

\* C14: the task of an entry is created in the step that creates the entry
\* and starts its sleep with the whole delay before any time passes; while it
\* sleeps its time left only falls, one per tick; a post appended to the
\* entry changes neither the task nor its time left; the task leaves the
\* sleep only when no time is left.
C14_GraceStep ==
    \A t \in HandlerIds :
        /\ (tpc[t] = "none" /\ tpc'[t] # "none") =>
              /\ tpc'[t] = "new"
              /\ tkey'[t] \notin DOMAIN media_groups
              /\ media_groups'[tkey'[t]].task = t
              /\ Len(media_groups'[tkey'[t]].messages) = 1
        /\ tpc[t] = "new" =>
              /\ \A t2 \in HandlerIds :
                    tpc[t2] = "sleep" => timer'[t2] = timer[t2]
              /\ tpc'[t] # "new" => tpc'[t] = "sleep"
        /\ (tpc[t] # "sleep" /\ tpc'[t] = "sleep") => timer'[t] = delay
        /\ tpc[t] = "sleep" =>
              /\ timer'[t] = timer[t] \/ timer'[t] = timer[t] - 1
              /\ tpc'[t] # "sleep" => timer[t] = 0
        /\ AppendedTo(t) => timer'[t] = timer[t] /\ tpc'[t] = tpc[t]

\* the sleeping task is ready to go on exactly when no time is left
C14_ReadyWhenOver ==
    \A t \in HandlerIds : tpc[t] = "sleep" =>
        /\ timer[t] \in 0..delay
        /\ (ENABLED (TaskWakeNow(t) \/ TaskWakeWait(t))) <=> timer[t] = 0

C15_DefensiveReturnUnreachable ==
    \A t \in HandlerIds :
        /\ tpc[t] \in {"new", "sleep", "wait_lock"} =>
              /\ tkey[t] \in DOMAIN media_groups
              /\ media_groups[tkey[t]].task = t
        /\ tpc[t] = "done" =>
              /\ message_ids[t] # <<>>
              /\ Len(calls[t]) = NDest

\* a task ended after its lookup found the key, and the task of a later
\* entry under the same key found it again
C15_Witness ==
    \E t0, t1 \in HandlerIds :
        /\ t0 # t1 /\ tkey[t0] = tkey[t1]
        /\ tpc[t0] = "done" /\ tpc[t1] = "forward"

\* --------------------------------------------------------------------- C16
\* task t is inside the block of line 60, between its lookup and its delete
InSection(t) == tpc[t] = "forward"

\* C16: a task inside its section owns the lock, so at most one task is
\* inside, and no handler has been given the lock meanwhile.
C16_OneInsideSection ==
    /\ \A t \in HandlerIds : InSection(t) => lockOwner = Task(t)
    /\ Cardinality({t \in HandlerIds : InSection(t)}) <= 1
    /\ \A h \in 1..Len(updates) :
          lockOwner = Handler(h) =>
              /\ hpc[h] = "wait_lock"
              /\ \A t \in HandlerIds : ~InSection(t)

\* while a task is inside its section the buffer changes only by that task
\* deleting its own key as it leaves; the buffer never changes in a step to
\* which a lock owner other than the writer is a party.
C16_SectionStep ==
    /\ \A t \in HandlerIds : InSection(t) =>
          \/ media_groups' = media_groups
          \/ /\ tpc'[t] = "done"
             /\ media_groups' = [k \in DOMAIN media_groups \ {tkey[t]} |->
                                    media_groups[k]]
    /\ \A h \in 1..Len(updates) : lockOwner = Handler(h) =>
          \/ media_groups' = media_groups
          \/ hpc'[h] = "done"

C16_MutualExclusion == []C16_OneInsideSection /\ [][C16_SectionStep]_vars

\* a post of the key being delivered is suspended at the lock while the task
\* of that key is inside its section
C16_Witness ==
    \E t \in HandlerIds, h \in 1..Len(updates) :
        /\ InSection(t)
        /\ hpc[h] = "wait_lock" /\ GroupedPost(h) /\ GroupKey(h) = tkey[t]
        /\ Handler(h) \in Range(waiters)

\* --------------------------------------------------------------------- C17
\* the entry of task t was delivered to every destination and removed
Completed(t) ==
    /\ tpc[t] = "done"
    /\ Len(calls[t]) = NDest
    /\ media_groups = <<>> \/ tkey[t] \notin DOMAIN media_groups
          \/ media_groups[tkey[t]].task # t

\* C17: under fair scheduling with every delivery call returning, the task
\* of every entry that enters the buffer ends after it made all its calls
\* and removed its entry, and the buffer is in the end empty for good.
C17_GroupsEventuallyComplete ==
    <>[](/\ media_groups = <<>>
         /\ \A t \in HandlerIds : tpc[t] # "none" => Completed(t))

\* every update has arrived, an entry was buffered and delivered, and the
\* buffer is empty
C17_Witness ==
    /\ Len(updates) = MaxEvents
    /\ media_groups = <<>>
    /\ lockOwner = NoOwner
    /\ \E t \in HandlerIds : Completed(t)
    /\ \A t \in HandlerIds : tpc[t] \in {"none", "done"}

\* --------------------------------------------------------------------- C18
\* this step is taken by the handler of singleton h: its arrival up to the
\* first forward_message call, or the return of one of its calls
SingletonStep(h) ==
    \/ /\ Len(updates') = Len(updates) + 1 /\ h = Len(updates')
       /\ updates'[h].channel_post /\ updates'[h].chat_id = S1
       /\ updates'[h].media_group_id = None
    \/ /\ SinglePost(h) /\ hpc[h] = "forward"
       /\ calls'[h] # calls[h] \/ hpc'[h] # hpc[h] \/ errors'[h] # errors[h]

\* C18: a step of the handler of a singleton changes neither the buffer nor
\* the completion tasks (their set, keys, positions and timers) nor the lock.
C18_SingletonFrame ==
    \A h \in HandlerIds : SingletonStep(h) =>
        /\ media_groups' = media_groups
        /\ {t \in HandlerIds : Outstanding(t)}' = {t \in HandlerIds : Outstanding(t)}
        /\ tpc' = tpc /\ tkey' = tkey /\ timer' = timer
        /\ message_ids' = message_ids
        /\ lockOwner' = lockOwner /\ waiters' = waiters

C18_SingletonLeavesBuffer == [][C18_SingletonFrame]_vars

\* a singleton that arrived after a group of the same source was buffered
\* has been delivered, the group still pending with its task asleep
C18_Witness ==
    \E h \in 1..Len(updates), key \in DOMAIN media_groups :
        /\ SinglePost(h) /\ hpc[h] = "done"
        /\ key[1] = updates[h].chat_id
        /\ media_groups[key].task < h
        /\ tpc[media_groups[key].task] = "sleep"

\* --------------------------------------------------------------------- C19
\* C19: whenever nobody owns the lock every entry of the buffer holds at
\* least one message, and every forward_messages call carries a non-empty
\* list of message ids.
C19_NoEmptyGroup ==
    /\ lockOwner = NoOwner =>
          \A key \in DOMAIN media_groups :
              Len(media_groups[key].messages) >= 1
    /\ \A t \in HandlerIds : \A i \in 1..Len(calls[t]) :
          calls[t][i].op = "forward_messages" =>
              Len(calls[t][i].message_ids) >= 1
    /\ \A t \in HandlerIds :
          tpc[t] \in {"forward", "done"} => Len(message_ids[t]) >= 1

\* the lock is free, an entry created a moment ago holds its one message,
\* and an earlier entry has been delivered with its ids
C19_Witness ==
    /\ lockOwner = NoOwner
    /\ \E key \in DOMAIN media_groups :
          /\ Len(media_groups[key].messages) = 1
          /\ tpc[media_groups[key].task] = "new"
    /\ \E t \in HandlerIds :
          /\ tpc[t] = "done"
          /\ calls[t][NDest].op = "forward_messages"
          /\ Len(calls[t][NDest].message_ids) >= 1

\* --------------------------------------------------------------------- C20
\* the positions of the destination list that name chat d
Listed(d) == {i \in 1..Len(destinations) : destinations[i] = d}

\* the calls of batch b that went to chat d
CallsTo(b, d) == {i \in 1..Len(calls[b]) : calls[b][i].chat_id = d}

\* C20: the calls of a batch follow the destination list position by
\* position, at most one of them awaits its result, and a batch whose
\* coroutine has ended made as many calls as the list is long, hence as many
\* calls to a chat as the list names it.
C20_CallsFollowList ==
    \A b \in HandlerIds :
        /\ \A i \in 1..Len(calls[b]) : calls[b][i].chat_id = destinations[i]
        /\ Returned(b) \in {Len(calls[b]) - 1, Len(calls[b])} \cap Nat
        /\ (BatchOver(b) /\ calls[b] # <<>>) =>
              /\ Len(calls[b]) = Len(destinations)
              /\ Returned(b) = Len(destinations)
              /\ \A d \in Range(destinations) :
                    Cardinality(CallsTo(b, d)) = Cardinality(Listed(d))

\* a call is issued only as the step in which the call before it returned,
\* and the calls made so far stay as they are
C20_NextCallStep ==
    \A b \in HandlerIds :
        \/ calls'[b] = calls[b]
        \/ /\ Len(calls'[b]) = Len(calls[b]) + 1
           /\ \A i \in 1..Len(calls[b]) : calls'[b][i] = calls[b][i]
           /\ calls[b] # <<>> => Awaiting(b)
           /\ \A b2 \in HandlerIds \ {b} : calls'[b2] = calls[b2]

C20_SequentialInListOrder == []C20_CallsFollowList /\ [][C20_NextCallStep]_vars

\* a group and a singleton have each been delivered twice to the chat that
\* the destination list names twice
C20_Witness ==
    \E t \in HandlerIds, h \in 1..Len(updates) :
        /\ tpc[t] = "done" /\ Cardinality(CallsTo(t, D1)) = 2
        /\ SinglePost(h) /\ hpc[h] = "done"
        /\ Cardinality(CallsTo(h, D1)) = 2
        /\ Cardinality(Listed(D1)) = 2
====
